---- MODULE Spec2Model ----
(***************************************************************************)
(* Care-Equity: the Express backend's data routes over its MongoDB         *)
(* collections (Hospitals, CalculatedRatings, patientReports).             *)
(*                                                                         *)
(* Numbers are fixed-point: a JavaScript number x is held as the integer   *)
(* 10 * x (tenths), so 4.5 is 45 and 85 is 850.  Quotients are compared    *)
(* exactly by cross-multiplication (sum/len >= 4  <=>  sum >= 4*len).      *)
(***************************************************************************)
EXTENDS Integers, Sequences, FiniteSets, TLC

VARIABLES
    hospitals,   \* the Hospitals collection, in find({}) order
    ratings,     \* the CalculatedRatings collection, in find({}) order
    reviews,     \* the patientReports collection, in insertion order
    response,    \* the last HTTP response sent by the server
    request,     \* req.body of the request that response answers
    pageRatings,       \* the ratings page: useState `ratings`
    filteredRatings,   \* the ratings page: useState `filteredRatings`
    selectedLocation,  \* the ratings page: useState `selectedLocation`
    sortBy,            \* the ratings page: useState `sortBy`
    locations,         \* the ratings page: useState `locations`
    disparityBadges,   \* the ratings page: the disparity badge of each row shown
    articles,          \* the Articles collection, in insertion order
    articleRequests,   \* the POST /articles requests being handled or answered
    urlOptions,        \* the options of the url path of the Article schema
    retries,           \* apiFetch: options.retries
    attempt,           \* apiFetch: the loop counter
    lastError,         \* apiFetch: lastError
    fetchCalls,        \* apiFetch: the outcomes of the fetch calls made so far
    settled,           \* apiFetch: how the returned promise has settled
    selectedHospitalForChart,   \* the ratings page: useState of that name
    chartTab,                   \* the ratings page: useState `chartTab`
    selectedHospitalSentiment,  \* the ratings page: useState of that name
    loadingSelectedSentiment,   \* the ratings page: useState of that name
    sentimentRequests  \* the fetchSelectedSentiment calls awaiting their response

page == <<pageRatings, filteredRatings, selectedLocation, sortBy, locations,
          disparityBadges>>

articleStore == <<articles, articleRequests, urlOptions>>

apiClient == <<retries, attempt, lastError, fetchCalls, settled>>

chart == <<selectedHospitalForChart, chartTab, selectedHospitalSentiment,
           loadingSelectedSentiment, sentimentRequests>>

server == <<hospitals, ratings, reviews, response, request>>

vars == <<server, page, articleStore, apiClient, chart>>

-----------------------------------------------------------------------------
(* Bounds of the model *)

MaxHospitals == 2
MaxRatings == 2
MaxShort == 3
MaxLong == 21
MaxStored == 2
MaxDeviations == 2
MaxPage == 3
MaxRetries == 2
MaxRequests == 2
MaxInFlight == 2

-----------------------------------------------------------------------------
(* JavaScript values *)

Undefined == [t |-> "undefined", n |-> 0, s |-> "", o |-> <<>>]
Null == [t |-> "null", n |-> 0, s |-> "", o |-> <<>>]
Num(x) == [t |-> "number", n |-> x, s |-> "", o |-> <<>>]
\* a string is a TLA+ string, or a tuple of characters where the code looks
\* inside it (the comment of a report)
Str(x) == [t |-> "string", n |-> 0, s |-> x, o |-> <<>>]
Obj(f) == [t |-> "object", n |-> 0, s |-> "", o |-> f]
Bool(b) == [t |-> "boolean", n |-> IF b THEN 1 ELSE 0, s |-> "", o |-> <<>>]

\* ToBoolean: undefined, null, 0 and "" are falsy
Truthy(v) ==
    CASE v.t = "number" -> v.n # 0
      [] v.t = "string" -> Len(v.s) > 0
      [] v.t = "object" -> TRUE
      [] v.t = "boolean" -> v.n = 1
      [] OTHER -> FALSE

\* a || b
JsOr(a, b) == IF Truthy(a) THEN a ELSE b

\* `${v}` for a string or a missing field
ToStr(v) == IF v.t = "string" THEN v.s ELSE v.t

NoResponse == [op |-> "none", status |-> 0]

\* the chart section of the ratings page as its useState initial values
\* leave it
ChartMounted ==
    /\ selectedHospitalForChart = ""
    /\ chartTab = "general"
    /\ selectedHospitalSentiment = Null
    /\ loadingSelectedSentiment = FALSE
    /\ sentimentRequests = <<>>

\* no article stored and no POST /articles received
NoArticles ==
    /\ articles = <<>>
    /\ articleRequests = <<>>
    /\ urlOptions = [unique |-> TRUE, trim |-> TRUE]

Pending == [kind |-> "pending"]

\* apiFetch has not been called
NoApiCall ==
    /\ retries = 0
    /\ attempt = 0
    /\ lastError = Null
    /\ fetchCalls = <<>>
    /\ settled = Pending

\* the ratings page as its useState initial values leave it
PageMounted ==
    /\ pageRatings = <<>>
    /\ filteredRatings = <<>>
    /\ selectedLocation = "all"
    /\ sortBy = "none"
    /\ locations = {}
    /\ disparityBadges = <<>>

\* req.body of a request sent without a body: every field reads as undefined
NoBody ==
    [hospitalId |-> Undefined, rating |-> Undefined, comment |-> Undefined,
     race |-> Undefined, experienceType |-> Undefined, isAnonymous |-> Undefined]


-----------------------------------------------------------------------------
(* Collections: Hospitals and CalculatedRatings *)

HospitalIdSet == {"HOSP_001", "HOSP_002", "HOSP_003"}

\* IHospital documents as .lean() returns them; a field absent from the
\* stored document reads as undefined
HospitalDoc(id, name, city, state) ==
    [_id |-> id, name |-> name, city |-> city, state |-> state]

HospitalDocs ==
    { HospitalDoc(id, Str("General"), Str("Austin"), Str("TX")) : id \in HospitalIdSet }
    \cup { HospitalDoc(id, Undefined, Str("Boston"), Str("MA")) : id \in HospitalIdSet }
    \cup { HospitalDoc(id, Str("Mercy"), Undefined, Undefined) : id \in HospitalIdSet }

\* _id is the primary key of the collection: no two documents share it
UniqueIds(seq) ==
    \A i, j \in 1..Len(seq) : i # j => seq[i]._id # seq[j]._id

SeqsUpTo(S, n) == UNION { [1..k -> S] : k \in 0..n }

HospitalLists == { h \in SeqsUpTo(HospitalDocs, MaxHospitals) : UniqueIds(h) }

\* IByGroup values
GroupsNone == <<>>
GroupsBW ==
    [g \in {"Black", "White"} |->
        IF g = "Black" THEN [score |-> 550, grade |-> "D"]
                       ELSE [score |-> 920, grade |-> "A"]]

\* ICalculatedRating documents
RatingDoc(id, score, grade, gap, byGroup) ==
    [hospitalId |-> id, overallScore |-> score, overallGrade |-> grade,
     equityGapScore |-> gap, byGroup |-> byGroup]

RatingIdSet == {"HOSP_001", "HOSP_002", "HOSP_404"}

RatingDocs ==
    { RatingDoc(id, Num(850), Str("B"), Num(120), Obj(GroupsBW)) : id \in RatingIdSet }
    \cup { RatingDoc(id, Num(0), Str("D"), Num(0), Undefined) : id \in RatingIdSet }
    \cup { RatingDoc(id, Num(700), Str("C"), Num(0), Obj(GroupsNone)) : id \in RatingIdSet }

RatingLists == SeqsUpTo(RatingDocs, MaxRatings)

-----------------------------------------------------------------------------
(* GET /ratings *)

\* new Map(entries): a later entry with the same key replaces the earlier one
\* an entry is added only under a key the map does not hold yet
RECURSIVE MapFromEntries_FirstWins(_, _)
MapFromEntries_FirstWins(m, rs) ==
    IF rs = <<>> THEN m
    ELSE LET r == Head(rs)
             m2 == [k \in DOMAIN m \cup {r.hospitalId} |->
                       IF k \in DOMAIN m THEN m[k] ELSE r]
         IN  MapFromEntries_FirstWins(m2, Tail(rs))

RECURSIVE MapFromEntries(_, _)
MapFromEntries(m, rs) ==
    IF rs = <<>> THEN m
    ELSE LET r == Head(rs)
             m2 == [k \in DOMAIN m \cup {r.hospitalId} |->
                       IF k = r.hospitalId THEN r ELSE m[k]]
         IN  MapFromEntries(m2, Tail(rs))

ratingMap(rs) == MapFromEntries(<<>>, rs)

\* rating?.field, where rating = ratingMap.get(id)
OptField(m, id, field) ==
    IF id \in DOMAIN m THEN m[id][field] ELSE Undefined

\* rating?.byGroup passed through with no default
JoinByGroup_NoDefault(bg) == bg

\* rating?.byGroup && typeof rating.byGroup === 'object'
\*   && Object.keys(rating.byGroup).length > 0 ? rating.byGroup : {}
JoinByGroup(bg) ==
    IF Truthy(bg) /\ bg.t = "object" /\ Cardinality(DOMAIN bg.o) > 0
    THEN bg ELSE Obj(<<>>)

JoinOne(m, hospital) ==
    [hospitalId |-> hospital._id,
     name |-> hospital.name,
     city |-> hospital.city,
     state |-> hospital.state,
     location |-> ToStr(hospital.city) \o ", " \o ToStr(hospital.state),
     overallGrade |-> JsOr(OptField(m, hospital._id, "overallGrade"), Str("N/A")),
     overallScore |-> JsOr(OptField(m, hospital._id, "overallScore"), Null),
     equityGapScore |-> JsOr(OptField(m, hospital._id, "equityGapScore"), Null),
     byGroup |-> JoinByGroup(OptField(m, hospital._id, "byGroup"))]

\* an inner join: only the hospitals that have a rating are emitted
RECURSIVE InnerJoin(_, _)
InnerJoin(m, hs) ==
    IF hs = <<>> THEN <<>>
    ELSE (IF Head(hs)._id \in DOMAIN m THEN <<JoinOne(m, Head(hs))>> ELSE <<>>)
         \o InnerJoin(m, Tail(hs))

hospitalsWithRatings_Inner(hs, rs) == InnerJoin(ratingMap(rs), hs)

\* hospitals.map(hospital => ...): element i of the result is made from
\* element i of the input
hospitalsWithRatings(hs, rs) ==
    LET m == ratingMap(rs)
    IN  [i \in 1..Len(hs) |-> JoinOne(m, hs[i])]

GetRatings ==
    /\ response' = [op |-> "ratings", status |-> 200, success |-> TRUE,
                    data |-> hospitalsWithRatings(hospitals, ratings),
                    count |-> Len(hospitalsWithRatings(hospitals, ratings))]
    /\ request' = NoBody
    /\ UNCHANGED <<hospitals, ratings, reviews, page, articleStore, apiClient, chart>>

InitJoin ==
    /\ hospitals \in HospitalLists
    /\ ratings \in RatingLists
    /\ reviews = <<>>
    /\ response = NoResponse
    /\ request = NoBody
    /\ PageMounted
    /\ ChartMounted
    /\ NoArticles
    /\ NoApiCall

NextJoin == GetRatings

SpecJoin == InitJoin /\ [][NextJoin]_vars

-----------------------------------------------------------------------------
(* Collection: patientReports *)

\* The seeded directory used by the review routes
SeedHospitals ==
    << HospitalDoc("HOSP_001", Str("General"), Str("Austin"), Str("TX")),
       HospitalDoc("HOSP_002", Str("Mercy"), Str("Boston"), Str("MA")) >>

\* the existence check lost: every identifier is taken as known
HospitalExists_Always(hs, id) == TRUE

\* Hospital.findById(id): is there a document with this _id
HospitalExists(hs, id) == \E i \in 1..Len(hs) : hs[i]._id = id

\* A stored IPatientReport: rating in tenths, comment as a tuple of characters
ReportDoc(hospitalId, rating, comment, race, experienceType, isAnonymous) ==
    [hospitalId |-> hospitalId, rating |-> rating, comment |-> comment,
     race |-> race, experienceType |-> experienceType, isAnonymous |-> isAnonymous]

\* find({}) in place of find({ hospitalId: id }): the filter is lost
ReviewsOf_Unfiltered(rs, id) == rs

\* PatientReport.find({ hospitalId: id })
RECURSIVE ReviewsOf(_, _)
ReviewsOf(rs, id) ==
    IF rs = <<>> THEN <<>>
    ELSE (IF Head(rs).hospitalId = id THEN <<Head(rs)>> ELSE <<>>)
         \o ReviewsOf(Tail(rs), id)

-----------------------------------------------------------------------------
(* GET /hospitals/:id/sentiment *)

\* reviews.reduce((sum, r) => sum + r.rating, 0), in tenths
RECURSIVE SumRatings(_)
SumRatings(rs) ==
    IF rs = <<>> THEN 0 ELSE Head(rs).rating + SumRatings(Tail(rs))

\* averageRating >= t for averageRating = sum / len and a threshold t given
\* in tenths (t = 40 is 4.0): sum / len >= t / 10 with sum in tenths
AvgAtLeast(sum, len, t) == sum >= t * len

\* Math.floor in place of Math.round
RoundedAverage_Floor(sum, len) == sum \div len

\* Math.round(averageRating) with the scaling by 10 forgotten
RoundedAverage_Whole(sum, len) == 10 * ((2 * sum + 10 * len) \div (20 * len))

\* Math.round(averageRating * 10) / 10, in tenths: Math.round rounds a tie
\* towards +Infinity, i.e. floor(x + 1/2) for x = sum / len
RoundedAverage(sum, len) == (2 * sum + len) \div (2 * len)

\* averageRating > 4 and > 3 in place of >= 4 and >= 3
sentimentOf_Strict(sum, len) ==
    IF sum > 40 * len THEN "positive"
    ELSE IF sum > 30 * len THEN "neutral"
    ELSE "negative"

sentimentOf(sum, len) ==
    IF AvgAtLeast(sum, len, 40) THEN "positive"
    ELSE IF AvgAtLeast(sum, len, 30) THEN "neutral"
    ELSE "negative"

SummaryExcellent ==
    "Patients consistently report excellent experiences with high-quality care and positive interactions."
SummaryGood ==
    "Patients generally report good experiences with mostly positive feedback about care quality."
SummaryMixed ==
    "Patients report mixed experiences with both positive and negative aspects noted."
SummaryConcerns ==
    "Patients report concerns about care quality and overall experience."
SummaryDissatisfied ==
    "Patients report significant concerns and dissatisfaction with care quality."

summarySentence(sum, len) ==
    IF AvgAtLeast(sum, len, 45) THEN SummaryExcellent
    ELSE IF AvgAtLeast(sum, len, 40) THEN SummaryGood
    ELSE IF AvgAtLeast(sum, len, 30) THEN SummaryMixed
    ELSE IF AvgAtLeast(sum, len, 20) THEN SummaryConcerns
    ELSE SummaryDissatisfied

\* the plural written unconditionally
countClause_Plural(len) == " Based on " \o ToString(len) \o " reviews."

\* ` Based on ${reviews.length} review${reviews.length !== 1 ? 's' : ''}.`
countClause(len) ==
    " Based on " \o ToString(len) \o " review" \o (IF len # 1 THEN "s" ELSE "") \o "."

\* reviews.filter(r => r.rating === k).length, k in stars
RECURSIVE CountRating(_, _)
CountRating(rs, k) ==
    IF rs = <<>> THEN 0
    ELSE (IF Head(rs).rating = 10 * k THEN 1 ELSE 0) + CountRating(Tail(rs), k)

\* the five keys 5, 4, 3, 2, 1 of the response's ratingDistribution
ratingDistribution(rs) == [k \in 1..5 |-> CountRating(rs, k)]

\* the reviews.length === 0 return left out: 0 / 0 is NaN, every comparison
\* with NaN is false, so the label falls through to 'negative' (NaN held as -1)
SentimentData_NoEmptyCase(rs) ==
    LET sum == SumRatings(rs)
        len == Len(rs)
    IN  [sentiment |-> IF len = 0 THEN "negative" ELSE sentimentOf(sum, len),
         summary |-> (IF len = 0 THEN SummaryDissatisfied ELSE summarySentence(sum, len))
                     \o countClause(len),
         averageRating |-> IF len = 0 THEN -1 ELSE RoundedAverage(sum, len),
         totalReviews |-> len,
         ratingDistribution |-> ratingDistribution(rs)]

SentimentData(rs) ==
    IF Len(rs) = 0
    THEN [sentiment |-> "neutral",
          summary |-> "No reviews available yet.",
          averageRating |-> 0,
          totalReviews |-> 0,
          ratingDistribution |-> [k \in 1..5 |-> 0]]
    ELSE LET sum == SumRatings(rs)
             len == Len(rs)
         IN  [sentiment |-> sentimentOf(sum, len),
              summary |-> summarySentence(sum, len) \o countClause(len),
              averageRating |-> RoundedAverage(sum, len),
              totalReviews |-> len,
              ratingDistribution |-> ratingDistribution(rs)]

NotFound(op, id) ==
    [op |-> op, id |-> id, status |-> 404, success |-> FALSE,
     error |-> "Hospital not found"]

GetSentiment(id) ==
    /\ response' =
          IF ~HospitalExists(hospitals, id) THEN NotFound("sentiment", id)
          ELSE [op |-> "sentiment", id |-> id, status |-> 200, success |-> TRUE,
                data |-> SentimentData(ReviewsOf(reviews, id))]
    /\ request' = NoBody
    /\ UNCHANGED <<hospitals, ratings, reviews, page, articleStore, apiClient, chart>>

\* Path parameters tried against the review routes
PathIds == {"HOSP_001", "HOSP_002", "HOSP_404"}

\* Review lists the store can hold: every short list over both hospitals, and
\* longer lists for one hospital given by their star histogram
StarRatings == {10, 20, 30, 40, 50}
StoredRatings == StarRatings \cup {45}

SampleReview(id, rating) ==
    ReportDoc(id, rating, <<"o", "k">>, "Black", "Complaint", TRUE)

ShortReviewDocs ==
    { SampleReview(id, r) : id \in {"HOSP_001", "HOSP_002"}, r \in StoredRatings }

RECURSIVE Repeat(_, _)
Repeat(x, n) == IF n = 0 THEN <<>> ELSE <<x>> \o Repeat(x, n - 1)

\* h[k] reviews of k stars for HOSP_001, k = 1..5
HistogramList(h) ==
    Repeat(SampleReview("HOSP_001", 10), h[1])
    \o Repeat(SampleReview("HOSP_001", 20), h[2])
    \o Repeat(SampleReview("HOSP_001", 30), h[3])
    \o Repeat(SampleReview("HOSP_001", 40), h[4])
    \o Repeat(SampleReview("HOSP_001", 50), h[5])

\* the lists HistogramList yields with at most n reviews in all
IsLongReviewList(rs, n) ==
    \E n1 \in 0..n : \E n2 \in 0..(n - n1) : \E n3 \in 0..(n - n1 - n2) :
    \E n4 \in 0..(n - n1 - n2 - n3) : \E n5 \in 0..(n - n1 - n2 - n3 - n4) :
        rs = HistogramList(<<n1, n2, n3, n4, n5>>)

InitSent ==
    /\ hospitals = SeedHospitals
    /\ ratings = <<>>
    /\ \/ reviews \in SeqsUpTo(ShortReviewDocs, MaxShort)
       \/ IsLongReviewList(reviews, MaxLong)
    /\ response = NoResponse
    /\ request = NoBody
    /\ PageMounted
    /\ ChartMounted
    /\ NoArticles
    /\ NoApiCall

NextSent == \E id \in PathIds : GetSentiment(id)

SpecSent == InitSent /\ [][NextSent]_vars

-----------------------------------------------------------------------------
(* POST /reports *)

\* String.prototype.trim on a tuple of characters
RECURSIVE TrimStart(_)
TrimStart(cs) ==
    IF cs # <<>> /\ Head(cs) = " " THEN TrimStart(Tail(cs)) ELSE cs

RECURSIVE TrimEnd(_)
TrimEnd(cs) ==
    IF cs # <<>> /\ cs[Len(cs)] = " " THEN TrimEnd(SubSeq(cs, 1, Len(cs) - 1)) ELSE cs

Trim(cs) == TrimEnd(TrimStart(cs))

validRaces ==
    {"Black", "White", "Hispanic", "Asian", "Native American", "Pacific Islander",
     "Other", "Prefer not to say"}

validExperienceTypes == {"Compliment", "Complaint", "Suggestion", "General Feedback"}

\* a type check in place of the membership test
Includes_AnyString(set, v) == v.t = "string"

\* Array.prototype.includes(v) on an array of strings
Includes(set, v) == v.t = "string" /\ v.s \in set

\* typeof rating !== 'number' || rating < 1 || rating > 5
InvalidRating(rating) == rating.t # "number" \/ rating.n < 10 \/ rating.n > 50

\* comment.length in place of comment.trim().length
InvalidComment_NoTrim(comment) == comment.t # "string" \/ Len(comment.s) = 0

\* typeof comment !== 'string' || comment.trim().length === 0
InvalidComment(comment) == comment.t # "string" \/ Len(Trim(comment.s)) = 0

\* PatientReportSchema validation run by report.save()
MaxCommentLength == 5000

raceEnum ==
    {"Black", "White", "Hispanic", "Asian", "Native American", "Pacific Islander",
     "Other", "Prefer not to say"}

experienceTypeEnum == {"Compliment", "Complaint", "Suggestion", "General Feedback"}

SchemaAccepts(doc) ==
    /\ doc.rating >= 10 /\ doc.rating <= 50
    /\ Len(doc.comment) > 0 /\ Len(doc.comment) <= MaxCommentLength
    /\ doc.race \in raceEnum
    /\ doc.experienceType \in experienceTypeEnum

\* isAnonymous copied from the request body (the schema default is true)
anonymityOf_FromBody(body) ==
    IF body.isAnonymous.t = "boolean" THEN body.isAnonymous.n = 1 ELSE TRUE

\* isAnonymous: true in new PatientReport({...})
anonymityOf(body) == TRUE

\* an upsert keyed by hospitalId: an earlier report of the hospital is replaced
RECURSIVE save_Upsert(_, _)
save_Upsert(rs, report) ==
    IF rs = <<>> THEN <<report>>
    ELSE IF Head(rs).hospitalId = report.hospitalId THEN <<report>> \o Tail(rs)
    ELSE <<Head(rs)>> \o save_Upsert(Tail(rs), report)

\* report.save() of a new document: one insert at the end of the collection
save(rs, report) == Append(rs, report)

Rejected(status, error) ==
    [op |-> "reports", status |-> status, success |-> FALSE, error |-> error]

\* the hospital is looked up before the fields are checked
PostReportResult_HospitalFirst(body, hs, rs) ==
    IF ~HospitalExists(hs, ToStr(body.hospitalId))
    THEN [res |-> Rejected(404, "Hospital not found"), reviews |-> rs]
    ELSE IF \/ ~Truthy(body.hospitalId) \/ ~Truthy(body.rating) \/ ~Truthy(body.comment)
            \/ ~Truthy(body.race) \/ ~Truthy(body.experienceType)
    THEN [res |-> Rejected(400, "Missing required fields"), reviews |-> rs]
    ELSE IF InvalidRating(body.rating)
    THEN [res |-> Rejected(400, "Invalid rating"), reviews |-> rs]
    ELSE IF InvalidComment(body.comment)
    THEN [res |-> Rejected(400, "Invalid comment"), reviews |-> rs]
    ELSE IF ~Includes(validRaces, body.race)
    THEN [res |-> Rejected(400, "Invalid race/ethnicity"), reviews |-> rs]
    ELSE IF ~Includes(validExperienceTypes, body.experienceType)
    THEN [res |-> Rejected(400, "Invalid experience type"), reviews |-> rs]
    ELSE LET report == ReportDoc(ToStr(body.hospitalId), body.rating.n,
                                 Trim(body.comment.s), body.race.s,
                                 body.experienceType.s, anonymityOf(body))
         IN  IF ~SchemaAccepts(report)
             THEN [res |-> Rejected(500, "Failed to submit report"), reviews |-> rs]
             ELSE [res |-> [op |-> "reports", status |-> 201, success |-> TRUE,
                            data |-> [hospitalId |-> report.hospitalId,
                                      rating |-> report.rating]],
                   reviews |-> save(rs, report)]

\* The response of POST /reports and the collection after it
PostReportResult(body, hs, rs) ==
    IF \/ ~Truthy(body.hospitalId) \/ ~Truthy(body.rating) \/ ~Truthy(body.comment)
       \/ ~Truthy(body.race) \/ ~Truthy(body.experienceType)
    THEN [res |-> Rejected(400, "Missing required fields"), reviews |-> rs]
    ELSE IF InvalidRating(body.rating)
    THEN [res |-> Rejected(400, "Invalid rating"), reviews |-> rs]
    ELSE IF InvalidComment(body.comment)
    THEN [res |-> Rejected(400, "Invalid comment"), reviews |-> rs]
    ELSE IF ~Includes(validRaces, body.race)
    THEN [res |-> Rejected(400, "Invalid race/ethnicity"), reviews |-> rs]
    ELSE IF ~Includes(validExperienceTypes, body.experienceType)
    THEN [res |-> Rejected(400, "Invalid experience type"), reviews |-> rs]
    ELSE IF ~HospitalExists(hs, ToStr(body.hospitalId))
    THEN [res |-> Rejected(404, "Hospital not found"), reviews |-> rs]
    ELSE LET report == ReportDoc(ToStr(body.hospitalId), body.rating.n,
                                 Trim(body.comment.s), body.race.s,
                                 body.experienceType.s, anonymityOf(body))
         IN  IF ~SchemaAccepts(report)
             THEN [res |-> Rejected(500, "Failed to submit report"), reviews |-> rs]
             ELSE [res |-> [op |-> "reports", status |-> 201, success |-> TRUE,
                            data |-> [hospitalId |-> report.hospitalId,
                                      rating |-> report.rating]],
                   reviews |-> save(rs, report)]

PostReport(body) ==
    /\ Len(reviews) < MaxStored
    /\ response' = PostReportResult(body, hospitals, reviews).res
    /\ reviews' = PostReportResult(body, hospitals, reviews).reviews
    /\ request' = body
    /\ UNCHANGED <<hospitals, ratings, page, articleStore, apiClient, chart>>

\* Request bodies tried against POST /reports
BodyHospitalIds == {Undefined, Str("HOSP_001"), Str("HOSP_404")}
BodyRatings == {Undefined, Num(0), Num(10), Num(45), Num(50), Num(60), Str("5")}
BodyComments == {Undefined, Str(<<>>), Str(<<" ">>), Str(<<" ", "o", "k", " ">>)}
BodyRaces == {Undefined, Str("Black"), Str("Martian")}
BodyExperienceTypes == {Undefined, Str("Complaint"), Str("Rant")}
BodyAnonymity == {Undefined, Bool(FALSE)}

\* the values of each field that pass every check of the route
PassingValues ==
    [hospitalId |-> {Str("HOSP_001")},
     rating |-> {Num(10), Num(45), Num(50)},
     comment |-> {Str(<<" ", "o", "k", " ">>)},
     race |-> {Str("Black")},
     experienceType |-> {Str("Complaint")},
     isAnonymous |-> BodyAnonymity]

\* the number of fields of a body that would fail a check
Deviations(b) == Cardinality({ f \in DOMAIN PassingValues : b[f] \notin PassingValues[f] })

\* every body over the field values above with at most n failing fields
BodiesWith(n) ==
    { b \in [hospitalId : BodyHospitalIds, rating : BodyRatings, comment : BodyComments,
              race : BodyRaces, experienceType : BodyExperienceTypes,
              isAnonymous : BodyAnonymity] : Deviations(b) <= n }

Bodies == BodiesWith(MaxDeviations)

-----------------------------------------------------------------------------
(* GET /hospitals/:id/reviews *)

\* .sort({ createdAt: -1 }): newest first, i.e. the reverse of insertion order
RECURSIVE Reverse(_)
Reverse(seq) == IF seq = <<>> THEN <<>> ELSE Reverse(Tail(seq)) \o <<Head(seq)>>

GetReviews(id) ==
    /\ response' =
          IF ~HospitalExists(hospitals, id) THEN NotFound("reviews", id)
          ELSE [op |-> "reviews", id |-> id, status |-> 200, success |-> TRUE,
                data |-> Reverse(ReviewsOf(reviews, id)),
                count |-> Len(ReviewsOf(reviews, id))]
    /\ request' = NoBody
    /\ UNCHANGED <<hospitals, ratings, reviews, page, articleStore, apiClient, chart>>

-----------------------------------------------------------------------------
(* The server over a seeded directory *)

SeedRatings ==
    << RatingDoc("HOSP_001", Num(850), Str("B"), Num(120), Obj(GroupsBW)) >>

Init ==
    /\ hospitals = SeedHospitals
    /\ ratings = SeedRatings
    /\ reviews = <<>>
    /\ response = NoResponse
    /\ request = NoBody
    /\ PageMounted
    /\ ChartMounted
    /\ NoArticles
    /\ NoApiCall

Next ==
    \/ \E body \in Bodies : PostReport(body)
    \/ \E id \in PathIds : GetSentiment(id)
    \/ \E id \in PathIds : GetReviews(id)
    \/ GetRatings

Spec == Init /\ [][Next]_vars

-----------------------------------------------------------------------------
(* The ratings page (QualityRatings): filter and sort over GET /ratings *)

\* The page reads the JSON body of GET /ratings.  JSON drops the properties
\* that are undefined and keeps null, so reading a property of a parsed
\* record gives the value the server record holds.

\* rating.byGroup?.<group>?.grade
GroupGrade(rating, group) ==
    IF rating.byGroup.t = "object" /\ group \in DOMAIN rating.byGroup.o
    THEN Str(rating.byGroup.o[group].grade)
    ELSE Undefined

\* { 'A': 4, 'B': 3, 'C': 2, 'D': 1 }[g] || 0
gradeToNum(g) ==
    CASE g = "A" -> 4 [] g = "B" -> 3 [] g = "C" -> 2 [] g = "D" -> 1
      [] OTHER -> 0

Abs(x) == IF x < 0 THEN -x ELSE x

hasSignificantDisparity_Gap1(rating) ==
    LET blackGrade == GroupGrade(rating, "Black")
        whiteGrade == GroupGrade(rating, "White")
    IN  IF ~Truthy(blackGrade) \/ ~Truthy(whiteGrade)
           \/ blackGrade.s = "N/A" \/ whiteGrade.s = "N/A"
        THEN FALSE
        ELSE Abs(gradeToNum(blackGrade.s) - gradeToNum(whiteGrade.s)) >= 1

hasSignificantDisparity(rating) ==
    LET blackGrade == GroupGrade(rating, "Black")
        whiteGrade == GroupGrade(rating, "White")
    IN  IF ~Truthy(blackGrade) \/ ~Truthy(whiteGrade)
           \/ blackGrade.s = "N/A" \/ whiteGrade.s = "N/A"
        THEN FALSE
        ELSE Abs(gradeToNum(blackGrade.s) - gradeToNum(whiteGrade.s)) >= 2

\* gradeOrder[g] || 0
gradeOrder_OtherFirst(sortOption, g) ==
    CASE g = "A" -> 1 [] g = "B" -> 2 [] g = "C" -> 3 [] g = "D" -> 4
      [] g = "N/A" -> 5
      [] g = "Z" /\ sortOption = "black" -> 6
      [] OTHER -> 0

\* gradeOrder[g] || 99: the 'black' sort's table has the extra key 'Z'
gradeOrder(sortOption, g) ==
    CASE g = "A" -> 1 [] g = "B" -> 2 [] g = "C" -> 3 [] g = "D" -> 4
      [] g = "N/A" -> 5
      [] g = "Z" /\ sortOption = "black" -> 6
      [] OTHER -> 99

\* Each comparator is a difference of a number read from either side,
\* (a, b) => SortKey(a) - SortKey(b); for 'disparity' bHas - aHas is
\* (-aHas) - (-bHas)
SortKey(sortOption, rating) ==
    CASE sortOption = "black" ->
           gradeOrder(sortOption, JsOr(GroupGrade(rating, "Black"), Str("Z")).s)
      [] sortOption = "disparity" ->
           IF hasSignificantDisparity(rating) THEN -1 ELSE 0
      [] sortOption = "overall" ->
           gradeOrder(sortOption, JsOr(rating.overallGrade, Str("N/A")).s)

\* places x before the elements it compares equal to
RECURSIVE Insert_BeforeEqual(_, _, _)
Insert_BeforeEqual(sorted, x, sortOption) ==
    IF sorted = <<>> THEN <<x>>
    ELSE IF SortKey(sortOption, Head(sorted)) - SortKey(sortOption, x) < 0
         THEN <<Head(sorted)>> \o Insert_BeforeEqual(Tail(sorted), x, sortOption)
         ELSE <<x>> \o sorted

\* Array.prototype.sort is stable: x goes after every element that the
\* comparator does not put after it
RECURSIVE Insert(_, _, _)
Insert(sorted, x, sortOption) ==
    IF sorted = <<>> THEN <<x>>
    ELSE IF SortKey(sortOption, Head(sorted)) - SortKey(sortOption, x) <= 0
         THEN <<Head(sorted)>> \o Insert(Tail(sorted), x, sortOption)
         ELSE <<x>> \o sorted

\* filtered.sort(comparator)
RECURSIVE SortedBy(_, _)
SortedBy(arr, sortOption) ==
    IF arr = <<>> THEN <<>>
    ELSE Insert(SortedBy(SubSeq(arr, 1, Len(arr) - 1), sortOption),
                arr[Len(arr)], sortOption)

FilterByLocation_None(arr, location) == arr

\* filtered.filter(r => r.location === selectedLocation)
RECURSIVE FilterByLocation(_, _)
FilterByLocation(arr, location) ==
    IF arr = <<>> THEN <<>>
    ELSE (IF Head(arr).location = location THEN <<Head(arr)>> ELSE <<>>)
         \o FilterByLocation(Tail(arr), location)

\* the same array object under a second name
Spread_Alias(arr) == [arr |-> arr, fresh |-> FALSE]

\* [...ratings]: a new array with the same elements; `fresh` records that
\* the array is not the one held by the state `ratings`
Spread(arr) == [arr |-> arr, fresh |-> TRUE]

SortOptions == {"none", "overall", "black", "disparity"}

\* The filter-and-sort effect.  sort() works in place, so the state
\* `ratings` is reordered with `filtered` when both name one array.
FilterAndSort(all, location, sortOption) ==
    LET copy == Spread(all)
        filtered == IF location # "all"
                    THEN [arr |-> FilterByLocation(copy.arr, location), fresh |-> TRUE]
                    ELSE copy
        sorted == IF sortOption \in {"black", "disparity", "overall"}
                  THEN SortedBy(filtered.arr, sortOption)
                  ELSE filtered.arr
    IN  [ratings |-> IF filtered.fresh THEN all ELSE sorted,
         filteredRatings |-> sorted]

\* the rows on screen and the badge getDisparityBadge gives each of them
Badges(rows) == [i \in 1..Len(rows) |-> hasSignificantDisparity(rows[i])]

\* new Set(result.data.map(r => r.location)): the options of the location
\* dropdown; the order of the options is not represented
uniqueLocations(data) == { data[i].location : i \in 1..Len(data) }

\* fetchRatings resolves: the three setState calls, then the effect, which
\* runs because `ratings` changed
ReceiveRatings ==
    /\ response.op = "ratings"
    /\ response.success
    /\ LET out == FilterAndSort(response.data, selectedLocation, sortBy)
       IN  /\ pageRatings' = out.ratings
           /\ filteredRatings' = out.filteredRatings
           /\ disparityBadges' = Badges(out.filteredRatings)
    /\ locations' = uniqueLocations(response.data)
    /\ UNCHANGED <<server, articleStore, apiClient, chart,
                   selectedLocation, sortBy>>

\* onChange of the location dropdown, then the effect
SetSelectedLocation(location) ==
    /\ location # selectedLocation
    /\ selectedLocation' = location
    /\ LET out == FilterAndSort(pageRatings, location, sortBy)
       IN  /\ pageRatings' = out.ratings
           /\ filteredRatings' = out.filteredRatings
           /\ disparityBadges' = Badges(out.filteredRatings)
    /\ UNCHANGED <<server, articleStore, apiClient, chart,
                   sortBy, locations>>

\* onChange of the sort dropdown, then the effect
SetSortBy(sortOption) ==
    /\ sortOption # sortBy
    /\ sortBy' = sortOption
    /\ LET out == FilterAndSort(pageRatings, selectedLocation, sortOption)
       IN  /\ pageRatings' = out.ratings
           /\ filteredRatings' = out.filteredRatings
           /\ disparityBadges' = Badges(out.filteredRatings)
    /\ UNCHANGED <<server, articleStore, apiClient, chart,
                   selectedLocation, locations>>

\* Inputs of the page: a directory whose hospital i is HOSP_00i, each with
\* a city, a state and, when rated, a stored rating with the given grades
PageId(i) == "HOSP_00" \o ToString(i)

\* IByGroup with the groups whose grade is given
GroupsOf(black, white) ==
    [g \in { x \in {"Black", "White"} :
                IF x = "Black" THEN black.t = "string" ELSE white.t = "string" }
       |-> [score |-> 800, grade |-> IF g = "Black" THEN black.s ELSE white.s]]

PageCase(city, state, rated, overall, black, white) ==
    [city |-> city, state |-> state, rated |-> rated, overall |-> overall,
     byGroup |-> Obj(GroupsOf(black, white))]

PageCases ==
    { PageCase(Str("Austin"), Str("TX"), TRUE, Str("A"), Str("A"), Str("D")),
      PageCase(Str("austin"), Str("TX"), TRUE, Str("C"), Str("B"), Str("C")),
      PageCase(Str("Washington"), Str("DC, USA"), FALSE, Undefined, Undefined, Undefined),
      PageCase(Str("Washington, DC"), Str("USA"), TRUE, Str("F"), Str("F"), Str("A")),
      PageCase(Str("Austin"), Str("TX"), TRUE, Str("B"), Str("N/A"), Str("A")),
      PageCase(Str("Austin"), Str("TX"), TRUE, Str("D"), Undefined, Str("B")),
      PageCase(Str("Austin"), Str("TX"), TRUE, Str("B"), Str("D"), Str("B")),
      PageCase(Undefined, Undefined, TRUE, Str("A"), Str("A"), Str("A")) }

PageGrades == {Undefined} \cup { Str(g) : g \in {"A", "B", "C", "D", "N/A", "F", ""} }

\* one hospital for every pair of Black and White grades
GradePairCases ==
    { PageCase(Str("Austin"), Str("TX"), TRUE, Str("B"), black, white) :
        black \in PageGrades, white \in PageGrades }

PageCaseLists ==
    SeqsUpTo(PageCases, MaxPage) \cup { <<c>> : c \in GradePairCases }

PageHospitals(cases) ==
    [i \in 1..Len(cases) |->
        HospitalDoc(PageId(i), Str("General"), cases[i].city, cases[i].state)]

RECURSIVE PageStoredRatings(_, _)
PageStoredRatings(cases, i) ==
    IF i > Len(cases) THEN <<>>
    ELSE (IF cases[i].rated
          THEN <<RatingDoc(PageId(i), Num(800), cases[i].overall, Num(100),
                           cases[i].byGroup)>>
          ELSE <<>>)
         \o PageStoredRatings(cases, i + 1)

InitPage ==
    /\ \E cases \in PageCaseLists :
          /\ hospitals = PageHospitals(cases)
          /\ ratings = PageStoredRatings(cases, 1)
    /\ reviews = <<>>
    /\ response = NoResponse
    /\ request = NoBody
    /\ PageMounted
    /\ ChartMounted
    /\ NoArticles
    /\ NoApiCall

NextPage ==
    \/ GetRatings
    \/ ReceiveRatings
    \/ \E location \in {"all"} \cup locations : SetSelectedLocation(location)
    \/ \E sortOption \in SortOptions : SetSortBy(sortOption)

SpecPage == InitPage /\ [][NextPage]_vars

-----------------------------------------------------------------------------
(* apiFetch: fetch with retries (frontend/lib/api-client.ts) *)

\* An error message is the tuple of its characters.

\* String.prototype.includes
Contains(text, part) ==
    \E i \in 1..(Len(text) - Len(part) + 1) :
        SubSeq(text, i, i + Len(part) - 1) = part

\* error.message?.includes(part), as a condition
MessageIncludes(error, part) ==
    error.message.t = "string" /\ Contains(error.message.s, part)

\* response.ok
Ok(status) == status >= 200 /\ status <= 299

IsColdStartStatus_ServerErrors(status) == status \in {500, 502, 503, 504}

\* [502, 503, 504].includes(response.status)
IsColdStartStatus(status) == status \in {502, 503, 504}

\* the first operand of the catch block's retry condition
IsNetworkError(error) ==
    \/ error.name = "AbortError"
    \/ error.name = "TypeError"
    \/ MessageIncludes(error, <<"f", "e", "t", "c", "h">>)
    \/ MessageIncludes(error, <<"n", "e", "t", "w", "o", "r", "k">>)

CanRetry_Inclusive(n, budget) == n <= budget

\* attempt < retries
CanRetry(n, budget) == n < budget

Returned(res) == [kind |-> "returned", response |-> res]
Thrown(error) == [kind |-> "thrown", error |-> error]

FailedToFetch ==
    [kind |-> "error", name |-> "Error",
     message |-> Str(<<"F", "a", "i", "l", "e", "d", " ", "t", "o", " ",
                       "f", "e", "t", "c", "h", " ", "a", "f", "t", "e", "r", " ",
                       "r", "e", "t", "r", "i", "e", "s">>)]

\* One pass of the loop body, given the outcome of its fetch call: what the
\* pass does next and the value of lastError after it
LoopBody(outcome, n, budget, last) ==
    IF outcome.kind = "response"
    THEN IF ~Ok(outcome.status) /\ IsColdStartStatus(outcome.status)
            /\ CanRetry(n, budget)
         THEN [next |-> "continue", settled |-> Pending, lastError |-> last]
         ELSE [next |-> "return", settled |-> Returned(outcome), lastError |-> last]
    ELSE IF IsNetworkError(outcome) /\ CanRetry(n, budget)
         THEN [next |-> "continue", settled |-> Pending, lastError |-> outcome]
         ELSE IF n = budget
         THEN [next |-> "throw", settled |-> Thrown(outcome), lastError |-> outcome]
         \* the catch block ends without continue or throw: the for loop
         \* goes on with its increment
         ELSE [next |-> "fall through", settled |-> Pending, lastError |-> outcome]

\* one iteration of the for loop: the fetch call settles with outcome
FetchAttempt(outcome) ==
    /\ settled = Pending
    /\ attempt <= retries
    /\ fetchCalls' = Append(fetchCalls, outcome)
    /\ LET pass == LoopBody(outcome, attempt, retries, lastError)
       IN  /\ lastError' = pass.lastError
           /\ settled' = pass.settled
           /\ attempt' = IF pass.settled = Pending THEN attempt + 1 ELSE attempt
    /\ UNCHANGED <<retries, server, page, articleStore, chart>>

\* the statement after the loop: throw lastError || new Error(...)
ThrowAfterLoop ==
    /\ settled = Pending
    /\ attempt > retries
    /\ settled' = Thrown(IF lastError = Null THEN FailedToFetch ELSE lastError)
    /\ UNCHANGED <<retries, attempt, lastError, fetchCalls, server, page,
                   articleStore, chart>>

ResponseStatuses == {200, 404, 500, 502, 503, 504}

ErrorOf(name, message) == [kind |-> "error", name |-> name, message |-> message]

FetchErrors ==
    { ErrorOf("AbortError", Str(<<"b", "o", "o", "m">>)),
      ErrorOf("TypeError", Str(<<"b", "o", "o", "m">>)),
      ErrorOf("Error", Undefined),
      ErrorOf("Error", Str(<<"b", "o", "o", "m">>)),
      ErrorOf("Error", Str(<<"r", "e", "f", "e", "t", "c", "h">>)),
      ErrorOf("Error", Str(<<"n", "e", "t", "w", "o", "r", "k">>)),
      ErrorOf("Error", Str(<<"F", "e", "t", "c", "h">>)) }

FetchOutcomes ==
    { [kind |-> "response", status |-> st] : st \in ResponseStatuses }
    \cup FetchErrors

\* apiFetch is called with options.retries; -1 is a budget under which the
\* loop body never runs
InitFetch ==
    /\ retries \in -1..MaxRetries
    /\ attempt = 0
    /\ lastError = Null
    /\ fetchCalls = <<>>
    /\ settled = Pending
    /\ hospitals = <<>>
    /\ ratings = <<>>
    /\ reviews = <<>>
    /\ response = NoResponse
    /\ request = NoBody
    /\ PageMounted
    /\ ChartMounted
    /\ NoArticles

NextFetch ==
    \/ \E outcome \in FetchOutcomes : FetchAttempt(outcome)
    \/ ThrowAfterLoop

SpecFetch == InitFetch /\ [][NextFetch]_vars

\* every fetch call settles (the abort timer sees to it) and every retry
\* delay elapses
SpecFetchFair == SpecFetch /\ WF_vars(NextFetch)

-----------------------------------------------------------------------------
(* POST /articles *)

\* The text of a url is the tuple of its pieces, each a blank or a run of
\* characters without a blank.
AbsoluteUrls == {"http://a.com", "http://b.org"}

\* new URL(url) does not throw: the parser strips the leading and trailing
\* blanks and needs an absolute url
ParsesAsUrl(text) == Len(Trim(text)) = 1 /\ Trim(text)[1] \in AbsoluteUrls

\* The options of the url path of the Article schema: a unique index, and
\* a trim setter, which Mongoose also applies to the filter of a query
UrlOptions == [unique : BOOLEAN, trim : BOOLEAN]

\* Article.findOne({ url }) finds a document
findOneByUrl(stored, url, options) ==
    LET filter == IF options.trim THEN Trim(url) ELSE url
    IN  \E i \in 1..Len(stored) : stored[i].url = filter

\* new Article({ title: title.trim(), ..., url: url.trim(), ... })
ArticleDoc(body) ==
    [title |-> Trim(body.title.s), description |-> Trim(body.description.s),
     url |-> Trim(body.url.s), source |-> Trim(body.source.s)]

\* article.save(): the insert is refused with a duplicate-key error when the
\* collection has a unique index on url and holds the url
saveArticle(stored, doc, options) ==
    IF options.unique /\ \E i \in 1..Len(stored) : stored[i].url = doc.url
    THEN [ok |-> FALSE, articles |-> stored]
    ELSE [ok |-> TRUE, articles |-> Append(stored, doc)]

Answered(body, status, error) ==
    [body |-> body, pc |-> "answered", status |-> status, error |-> error]

\* The handler up to the answer of findOne: the request is answered, or it
\* goes on to save()
ArticleChecked(body, stored, options) ==
    IF \/ ~Truthy(body.title) \/ ~Truthy(body.description) \/ ~Truthy(body.url)
       \/ ~Truthy(body.source)
    THEN Answered(body, 400, "Missing required fields")
    ELSE IF ~ParsesAsUrl(body.url.s)
    THEN Answered(body, 400, "Invalid URL")
    ELSE IF findOneByUrl(stored, body.url.s, options)
    THEN Answered(body, 409, "Duplicate URL")
    ELSE [body |-> body, pc |-> "saving", status |-> 0, error |-> ""]

\* a POST /articles arrives and runs until findOne has answered
ArticleArrives(body) ==
    /\ Len(articleRequests) < MaxRequests
    /\ articleRequests' =
          Append(articleRequests, ArticleChecked(body, articles, urlOptions))
    /\ UNCHANGED <<articles, urlOptions, server, page, apiClient, chart>>

\* the handler of request i goes on from findOne: save(), then 201, or 500
\* from the catch block when save() throws
ArticleSaves(i) ==
    /\ i \in 1..Len(articleRequests)
    /\ articleRequests[i].pc = "saving"
    /\ LET body == articleRequests[i].body
           saved == saveArticle(articles, ArticleDoc(body), urlOptions)
       IN  /\ articles' = saved.articles
           /\ articleRequests' =
                 [articleRequests EXCEPT ![i] =
                     IF saved.ok
                     THEN Answered(body, 201, "")
                     ELSE Answered(body, 500, "Failed to create article")]
    /\ UNCHANGED <<urlOptions, server, page, apiClient, chart>>

ArticleUrls ==
    {Undefined, Str(<<"example">>), Str(<<"http://a.com">>),
     Str(<<" ", "http://a.com", " ">>), Str(<<"http://b.org">>)}

ArticleBodies ==
    [title : {Undefined, Str(<<"Equity", " ", "report">>)},
     description : {Str(<<"Findings">>)},
     url : ArticleUrls,
     source : {Str(<<"CDC">>)}]

InitArticles ==
    /\ articles = <<>>
    /\ articleRequests = <<>>
    /\ urlOptions \in UrlOptions
    /\ hospitals = <<>>
    /\ ratings = <<>>
    /\ reviews = <<>>
    /\ response = NoResponse
    /\ request = NoBody
    /\ PageMounted
    /\ ChartMounted
    /\ NoApiCall

NextArticles ==
    \/ \E body \in ArticleBodies : ArticleArrives(body)
    \/ \E i \in 1..MaxRequests : ArticleSaves(i)

SpecArticles == InitArticles /\ [][NextArticles]_vars

-----------------------------------------------------------------------------
(* The ratings page: the sentiment of the hospital selected for the charts *)

\* the body of GET /hospitals/:id/sentiment as the server answers it now
SentimentResult(id) ==
    IF ~HospitalExists(hospitals, id) THEN NotFound("sentiment", id)
    ELSE [op |-> "sentiment", id |-> id, status |-> 200, success |-> TRUE,
          data |-> SentimentData(ReviewsOf(reviews, id))]

\* The fetchSelectedSentiment effect, run after selectedHospitalForChart or
\* chartTab has changed: up to the await of fetch
StartsRequest(selected, tab) == selected # "" /\ tab = "individual"

SentimentEffect(selected, tab) ==
    IF StartsRequest(selected, tab)
    THEN /\ Len(sentimentRequests) < MaxInFlight
         /\ loadingSelectedSentiment' = TRUE
         /\ sentimentRequests' = Append(sentimentRequests, selected)
    ELSE UNCHANGED <<loadingSelectedSentiment, sentimentRequests>>

\* onChange of the hospital selector, then the effect
SelectHospitalForChart(id) ==
    /\ id # selectedHospitalForChart
    /\ selectedHospitalForChart' = id
    /\ SentimentEffect(id, chartTab)
    /\ UNCHANGED <<chartTab, selectedHospitalSentiment, server, page,
                   articleStore, apiClient>>

\* onClick of a chart tab, then the effect
SetChartTab(tab) ==
    /\ tab # chartTab
    /\ chartTab' = tab
    /\ SentimentEffect(selectedHospitalForChart, tab)
    /\ UNCHANGED <<selectedHospitalForChart, selectedHospitalSentiment, server,
                   page, articleStore, apiClient>>

\* sequence seq without its element i
Without(seq, i) == SubSeq(seq, 1, i - 1) \o SubSeq(seq, i + 1, Len(seq))

\* the fetch of request i resolves and the rest of fetchSelectedSentiment runs
SentimentArrives(i) ==
    /\ i \in 1..Len(sentimentRequests)
    /\ LET result == SentimentResult(sentimentRequests[i])
       IN  selectedHospitalSentiment' =
               IF result.success THEN result.data ELSE selectedHospitalSentiment
    /\ loadingSelectedSentiment' = FALSE
    /\ sentimentRequests' = Without(sentimentRequests, i)
    /\ UNCHANGED <<selectedHospitalForChart, chartTab, server, page,
                   articleStore, apiClient>>

\* the fetch of request i rejects: the catch block, then finally
SentimentFails(i) ==
    /\ i \in 1..Len(sentimentRequests)
    /\ loadingSelectedSentiment' = FALSE
    /\ sentimentRequests' = Without(sentimentRequests, i)
    /\ UNCHANGED <<selectedHospitalForChart, chartTab, selectedHospitalSentiment,
                   server, page, articleStore, apiClient>>

ChartTabs == {"general", "individual"}

\* the options of the hospital selector: '' and the hospitals of `ratings`
ChartOptions == {""} \cup { pageRatings[i].hospitalId : i \in 1..Len(pageRatings) }

\* review stores the chart requests are answered from
ChartReviewSeeds ==
    { <<SampleReview("HOSP_001", 50)>>,
      <<SampleReview("HOSP_001", 50), SampleReview("HOSP_002", 10)>>,
      <<SampleReview("HOSP_002", 30), SampleReview("HOSP_002", 40)>> }

\* the page after fetchRatings has resolved, with nothing selected
InitChart ==
    /\ hospitals = SeedHospitals
    /\ ratings = SeedRatings
    /\ reviews \in ChartReviewSeeds
    /\ response = NoResponse
    /\ request = NoBody
    /\ pageRatings = hospitalsWithRatings(hospitals, ratings)
    /\ filteredRatings = pageRatings
    /\ selectedLocation = "all"
    /\ sortBy = "none"
    /\ locations = uniqueLocations(pageRatings)
    /\ disparityBadges = Badges(filteredRatings)
    /\ ChartMounted
    /\ NoArticles
    /\ NoApiCall

NextChart ==
    \/ \E id \in ChartOptions : SelectHospitalForChart(id)
    \/ \E tab \in ChartTabs : SetChartTab(tab)
    \/ \E i \in 1..MaxInFlight : SentimentArrives(i)
    \/ \E i \in 1..MaxInFlight : SentimentFails(i)

SpecChart == InitChart /\ [][NextChart]_vars

-----------------------------------------------------------------------------
(* Properties of GET /ratings (SpecJoin) *)

RatingsSent == response.op = "ratings"

\* the rating documents whose hospitalId is id
RatingsFor(id) == { j \in 1..Len(ratings) : ratings[j].hospitalId = id }

\* C1: the joined output has one record per hospital of the directory, in the
\* directory's order, whatever the rating collection holds
C1_OneRecordPerHospital ==
    RatingsSent =>
        /\ Len(response.data) = Len(hospitals)
        /\ response.count = Len(hospitals)
        /\ \A i \in 1..Len(hospitals) : response.data[i].hospitalId = hospitals[i]._id

\* two hospitals, one without a name and one without city and state, joined
\* against ratings that repeat an identifier and name an unknown hospital
C1_Witness ==
    /\ RatingsSent
    /\ Len(hospitals) = 2
    /\ \E i \in 1..2 : hospitals[i].name.t = "undefined"
    /\ \E i \in 1..2 : hospitals[i].city.t = "undefined"
    /\ \E j \in 1..Len(ratings) : ~HospitalExists(hospitals, ratings[j].hospitalId)
    /\ \E j, k \in 1..Len(ratings) : j # k /\ ratings[j].hospitalId = ratings[k].hospitalId

\* C2: a hospital with no rating document is joined with grade "N/A", null
\* scores and an empty byGroup object
C2_DefaultsWithoutRating ==
    RatingsSent =>
        \A i \in 1..Len(hospitals) :
            RatingsFor(hospitals[i]._id) = {} =>
                /\ response.data[i].overallGrade = Str("N/A")
                /\ response.data[i].overallScore = Null
                /\ response.data[i].equityGapScore = Null
                /\ response.data[i].byGroup.t = "object"
                /\ DOMAIN response.data[i].byGroup.o = {}

\* a hospital without a rating is joined while another hospital has one
C2_Witness ==
    /\ RatingsSent
    /\ \E i \in 1..Len(hospitals) : RatingsFor(hospitals[i]._id) = {}
    /\ \E i \in 1..Len(hospitals) : RatingsFor(hospitals[i]._id) # {}

\* C3: a score of 0 in the hospital's rating document is carried into the
\* joined record as 0 (stated for a hospital with exactly one rating document)
C3_ZeroScoreKept ==
    RatingsSent =>
        \A i \in 1..Len(hospitals) : \A j \in RatingsFor(hospitals[i]._id) :
            RatingsFor(hospitals[i]._id) = {j} =>
                /\ ratings[j].overallScore = Num(0) =>
                      response.data[i].overallScore = Num(0)
                /\ ratings[j].equityGapScore = Num(0) =>
                      response.data[i].equityGapScore = Num(0)

-----------------------------------------------------------------------------
(* Properties of GET /hospitals/:id/sentiment (SpecSent) *)

SentimentSent == response.op = "sentiment" /\ response.status = 200

\* the reviews the answered request was about
Asked == ReviewsOf(reviews, response.id)

\* sum and number of the ratings of the reviews asked about, read off the store
AskedSum == SumRatings(Asked)
AskedLen == Len(Asked)

\* C4: an existing hospital with no reviews gets a success with the neutral,
\* all-zero result
C4_NoReviewsNeutral ==
    (response.op = "sentiment" /\ HospitalExists(hospitals, response.id) /\ AskedLen = 0) =>
        /\ response.status = 200
        /\ response.success
        /\ response.data.sentiment = "neutral"
        /\ response.data.averageRating = 0
        /\ response.data.totalReviews = 0
        /\ DOMAIN response.data.ratingDistribution = 1..5
        /\ \A k \in 1..5 : response.data.ratingDistribution[k] = 0

\* a hospital without reviews is asked about while the store holds reviews of
\* another hospital
C4_Witness ==
    /\ SentimentSent
    /\ response.id = "HOSP_002"
    /\ AskedLen = 0
    /\ Len(reviews) > 0

\* C5: for a non-empty review list the label is positive iff mean >= 4.0,
\* neutral iff 3.0 <= mean < 4.0, negative iff mean < 3.0
C5_LabelByMean ==
    (SentimentSent /\ AskedLen > 0) =>
        /\ response.data.sentiment = "positive" <=> AskedSum >= 40 * AskedLen
        /\ response.data.sentiment = "neutral" <=>
              (AskedSum >= 30 * AskedLen /\ AskedSum < 40 * AskedLen)
        /\ response.data.sentiment = "negative" <=> AskedSum < 30 * AskedLen

\* a mean of exactly 4.0 made of unequal ratings, and one of exactly 3.0
C5_Witness ==
    /\ SentimentSent
    /\ AskedLen >= 2
    /\ \E i \in 1..AskedLen : Asked[i].rating # 40
    /\ AskedSum = 40 * AskedLen
    /\ response.data.sentiment = "positive"

\* the label the thresholds give to a value in tenths
LabelOfTenths(a) ==
    IF a >= 40 THEN "positive" ELSE IF a >= 30 THEN "neutral" ELSE "negative"

\* C6 as stated: the label equals the label of the returned, rounded average
C6_LabelOfRoundedAverage ==
    (SentimentSent /\ AskedLen > 0) =>
        response.data.sentiment = LabelOfTenths(response.data.averageRating)

\* C6: the label equals the label of the returned average except when the
\* mean lies in [3.95, 4.0) or [2.95, 3.0): the average is then returned as 4.0
\* or 3.0 and the label is the one of the band below
C6_LabelOfRoundedAverageUnlessRoundedUp ==
    (SentimentSent /\ AskedLen > 0) =>
        \/ response.data.sentiment = LabelOfTenths(response.data.averageRating)
        \/ /\ response.data.averageRating = 40
           /\ response.data.sentiment = "neutral"
           /\ 2 * AskedSum >= 79 * AskedLen /\ AskedSum < 40 * AskedLen
        \/ /\ response.data.averageRating = 30
           /\ response.data.sentiment = "negative"
           /\ 2 * AskedSum >= 59 * AskedLen /\ AskedSum < 30 * AskedLen

\* integer star ratings whose mean rounds up to 4.0 and is labelled neutral
C6_Witness ==
    /\ SentimentSent
    /\ \A i \in 1..AskedLen : Asked[i].rating \in StarRatings
    /\ response.data.averageRating = 40
    /\ response.data.sentiment = "neutral"

\* C7: totalReviews is the number of reviews and averageRating is the mean
\* rounded to the nearest tenth
C7_CountAndRoundedMean ==
    (SentimentSent /\ AskedLen > 0) =>
        /\ response.data.totalReviews = AskedLen
        /\ 2 * (response.data.averageRating * AskedLen - AskedSum) <= AskedLen
        /\ 2 * (AskedSum - response.data.averageRating * AskedLen) <= AskedLen

\* the ratings 5,5,5,4,2 answered with 4.2 over 5 reviews
C7_Witness ==
    /\ SentimentSent
    /\ AskedLen = 5
    /\ Cardinality({ i \in 1..5 : Asked[i].rating = 50 }) = 3
    /\ \E i \in 1..5 : Asked[i].rating = 40
    /\ \E i \in 1..5 : Asked[i].rating = 20
    /\ response.data.averageRating = 42
    /\ response.data.totalReviews = 5

\* C8: bucket k of the distribution counts the hospital's reviews rated k, and
\* the buckets are exactly 1..5
C8_DistributionCounts ==
    SentimentSent =>
        /\ DOMAIN response.data.ratingDistribution = 1..5
        /\ \A k \in 1..5 :
              response.data.ratingDistribution[k] =
                  Cardinality({ i \in 1..Len(reviews) :
                                  /\ reviews[i].hospitalId = response.id
                                  /\ reviews[i].rating = 10 * k })

\* two reviews of the hospital asked about, next to a review of another one
C8_Witness ==
    /\ SentimentSent
    /\ AskedLen = 2
    /\ Len(reviews) = 3
    /\ \E k \in 1..5 : response.data.ratingDistribution[k] = 2

\* C9: the summary is the sentence of the band holding the mean followed by
\* the review count, "1 review" for one review and "N reviews" otherwise
C9_SummaryBandAndCount ==
    (SentimentSent /\ AskedLen > 0) =>
        \E sentence \in {SummaryExcellent, SummaryGood, SummaryMixed,
                          SummaryConcerns, SummaryDissatisfied} :
            /\ sentence = SummaryExcellent <=> 2 * AskedSum >= 9 * AskedLen * 10
            /\ sentence = SummaryGood <=>
                  (AskedSum >= 40 * AskedLen /\ 2 * AskedSum < 9 * AskedLen * 10)
            /\ sentence = SummaryMixed <=>
                  (AskedSum >= 30 * AskedLen /\ AskedSum < 40 * AskedLen)
            /\ sentence = SummaryConcerns <=>
                  (AskedSum >= 20 * AskedLen /\ AskedSum < 30 * AskedLen)
            /\ sentence = SummaryDissatisfied <=> AskedSum < 20 * AskedLen
            /\ response.data.summary =
                  IF AskedLen = 1 THEN sentence \o " Based on 1 review."
                  ELSE sentence \o " Based on " \o ToString(AskedLen) \o " reviews."

\* a single review, answered in the singular
C9_Witness ==
    /\ SentimentSent
    /\ AskedLen = 1
    /\ Len(reviews) = 1
    /\ response.data.summary = SummaryGood \o " Based on 1 review."

-----------------------------------------------------------------------------
(* Properties of the review store (Spec) *)

\* C10: every stored review has an integer rating in {1,2,3,4,5}
C10_StoredRatingsAreStars ==
    \A i \in 1..Len(reviews) : reviews[i].rating \in StarRatings

\* a POST /reports was the last request answered
ReportAnswered == response.op = "reports"

\* id is the identifier of a hospital of the directory
InDirectory(id) == \E j \in 1..Len(hospitals) : hospitals[j]._id = id

RaceSet ==
    {"Black", "White", "Hispanic", "Asian", "Native American", "Pacific Islander",
     "Other", "Prefer not to say"}

ExperienceTypeSet == {"Compliment", "Complaint", "Suggestion", "General Feedback"}

\* the body names a hospital of the directory
NamesHospital(b) == b.hospitalId.t = "string" /\ InDirectory(b.hospitalId.s)

\* the comment is a string with a character other than a blank
HasText(c) == c.t = "string" /\ \E k \in 1..Len(c.s) : c.s[k] # " "

RaceAllowed(b) == b.race.t = "string" /\ b.race.s \in RaceSet

TypeAllowed(b) == b.experienceType.t = "string" /\ b.experienceType.s \in ExperienceTypeSet

\* every rule on the fields other than the hospital's existence is met
FieldRulesMet(b) ==
    /\ b.hospitalId.t = "string" /\ Len(b.hospitalId.s) > 0
    /\ b.rating.t = "number" /\ b.rating.n >= 10 /\ b.rating.n <= 50
    /\ HasText(b.comment)
    /\ RaceAllowed(b)
    /\ TypeAllowed(b)

C12_ClosedSets ==
    /\ [](\A i \in 1..Len(reviews) :
             reviews[i].race \in RaceSet /\ reviews[i].experienceType \in ExperienceTypeSet)
    /\ [][(response'.op = "reports" /\ (~RaceAllowed(request') \/ ~TypeAllowed(request'))) =>
              /\ reviews' = reviews
              /\ ~response'.success
              /\ response'.status = 400]_vars

\* a race and an experience type outside the sets are each named in a refusal
C12_Witness ==
    /\ ReportAnswered
    /\ request.experienceType = Str("Rant")
    /\ request.race = Str("Black")
    /\ response.error = "Invalid experience type"
    /\ Len(reviews) > 0

ValidationErrors ==
    {"Missing required fields", "Invalid rating", "Invalid comment",
     "Invalid race/ethnicity", "Invalid experience type", "Hospital not found"}

\* C13: a submission that breaks a validation rule is answered success = false
\* with the reason of a validation rule, and the store is left as it was
C13_RejectionLeavesStore ==
    [][(response'.op = "reports" /\ (~FieldRulesMet(request') \/ ~NamesHospital(request'))) =>
           /\ ~response'.success
           /\ response'.error \in ValidationErrors
           /\ response'.status \in {400, 404}
           /\ reviews' = reviews]_vars

\* a comment of blanks only is refused while the store already holds a review
C13_Witness ==
    /\ ReportAnswered
    /\ request.comment = Str(<<" ">>)
    /\ response.error = "Invalid comment"
    /\ Len(reviews) > 0

\* C14: every step keeps the stored reviews as they are, in place; a
\* submission answered 201 adds exactly one review at the end and every other
\* request adds none
C14_AppendOnly ==
    [][/\ Len(reviews') >= Len(reviews)
       /\ SubSeq(reviews', 1, Len(reviews)) = reviews
       /\ (response'.op = "reports" /\ response'.status = 201) =>
              Len(reviews') = Len(reviews) + 1
       /\ ~(response'.op = "reports" /\ response'.status = 201) =>
              reviews' = reviews]_vars

\* a second review of the same hospital is stored after the first
C14_Witness ==
    /\ ReportAnswered
    /\ response.status = 201
    /\ Len(reviews) = 2
    /\ reviews[1].hospitalId = reviews[2].hospitalId
    /\ reviews[1].rating # reviews[2].rating

\* C15: every stored review has its anonymity flag set
C15_AlwaysAnonymous ==
    \A i \in 1..Len(reviews) : reviews[i].isAnonymous = TRUE

\* a body carrying isAnonymous = false is accepted and stored
C15_Witness ==
    /\ ReportAnswered
    /\ response.status = 201
    /\ request.isAnonymous = Bool(FALSE)
    /\ Len(reviews) > 0

-----------------------------------------------------------------------------
(* Properties of the ratings page (SpecPage) *)

LetterGrades == {"A", "B", "C", "D"}

Ordinal(g) == CASE g = "A" -> 4 [] g = "B" -> 3 [] g = "C" -> 2 [] g = "D" -> 1

\* a grade that is absent, empty or "N/A"
NoGrade(g) == g.t # "string" \/ g.s = "" \/ g.s = "N/A"

\* C16: a row carries the disparity badge exactly when its Black and White
\* grades, both among A, B, C and D, lie two or more ordinals apart; a row
\* with either grade missing or "N/A" carries none
C16_DisparityFlag ==
    /\ Len(disparityBadges) = Len(filteredRatings)
    /\ \A i \in 1..Len(filteredRatings) :
          LET black == GroupGrade(filteredRatings[i], "Black")
              white == GroupGrade(filteredRatings[i], "White")
          IN  /\ (~NoGrade(black) /\ ~NoGrade(white)
                  /\ black.s \in LetterGrades /\ white.s \in LetterGrades) =>
                    (disparityBadges[i] <=>
                        Abs(Ordinal(black.s) - Ordinal(white.s)) >= 2)
              /\ (NoGrade(black) \/ NoGrade(white)) => ~disparityBadges[i]

\* a row graded B for Black and D for White patients is shown with the badge
C16_Witness ==
    \E i \in 1..Len(filteredRatings) :
        /\ GroupGrade(filteredRatings[i], "Black") = Str("B")
        /\ GroupGrade(filteredRatings[i], "White") = Str("D")
        /\ disparityBadges[i]

\* the place of a grade in the order A < B < C < D < N/A < other or missing
PlaceInOrder(g) ==
    IF g.t # "string" THEN 6
    ELSE CASE g.s = "A" -> 1 [] g.s = "B" -> 2 [] g.s = "C" -> 3
           [] g.s = "D" -> 4 [] g.s = "N/A" -> 5 [] OTHER -> 6

\* C17: under the 'overall' sort no row stands before a row whose overall
\* grade is strictly earlier in A < B < C < D < N/A < other/missing, and
\* under the 'black' sort the same holds of the Black-group grade
C17_GradeSorts ==
    /\ sortBy = "overall" =>
          \A i, j \in 1..Len(filteredRatings) :
              i < j => PlaceInOrder(filteredRatings[i].overallGrade)
                          <= PlaceInOrder(filteredRatings[j].overallGrade)
    /\ sortBy = "black" =>
          \A i, j \in 1..Len(filteredRatings) :
              i < j => PlaceInOrder(GroupGrade(filteredRatings[i], "Black"))
                          <= PlaceInOrder(GroupGrade(filteredRatings[j], "Black"))

\* the 'black' sort has reordered three rows, one with a grade outside the
\* table and one without a Black grade
C17_Witness ==
    /\ sortBy = "black"
    /\ selectedLocation = "all"
    /\ Len(filteredRatings) = 3
    /\ filteredRatings # pageRatings
    /\ \E i, j \in 1..3 :
          /\ GroupGrade(filteredRatings[i], "Black") = Str("F")
          /\ GroupGrade(filteredRatings[j], "Black") = Undefined

\* the rows of `ratings` at the selected location, in their order
LocationFiltered ==
    LET AtLocation(r) == selectedLocation = "all" \/ r.location = selectedLocation
    IN  SelectSeq(pageRatings, AtLocation)

\* C18: under the 'disparity' sort the rows shown are the flagged rows of
\* the location-filtered list in their order there, followed by its other
\* rows in their order there
C18_DisparityFirstStable ==
    sortBy = "disparity" =>
        LET Flagged(r) == hasSignificantDisparity(r)
            NotFlagged(r) == ~hasSignificantDisparity(r)
        IN  filteredRatings = SelectSeq(LocationFiltered, Flagged)
                                \o SelectSeq(LocationFiltered, NotFlagged)

\* two flagged rows have moved ahead of a row that stood first
C18_Witness ==
    /\ sortBy = "disparity"
    /\ Len(pageRatings) = 3
    /\ Len(filteredRatings) = 3
    /\ ~hasSignificantDisparity(pageRatings[1])
    /\ disparityBadges = <<TRUE, TRUE, FALSE>>
    /\ filteredRatings[1] = pageRatings[2]
    /\ filteredRatings[2] = pageRatings[3]

Shown(r) == \E j \in 1..Len(filteredRatings) : filteredRatings[j] = r

\* C19: with the location of a hospital h selected, the rows shown are
\* exactly the hospitals whose city is h's city and whose state is h's state
C19_LocationRoundTrip ==
    selectedLocation # "all" =>
        \A i, k \in 1..Len(pageRatings) :
            pageRatings[i].location = selectedLocation =>
                (Shown(pageRatings[k]) <=>
                    /\ pageRatings[k].city = pageRatings[i].city
                    /\ pageRatings[k].state = pageRatings[i].state)

\* C19, amended: with a location selected, the rows shown are exactly the
\* hospitals whose city and state compose to the selected text
C19_ExactComposedMatch ==
    selectedLocation # "all" =>
        \A k \in 1..Len(pageRatings) :
            Shown(pageRatings[k]) <=>
                ToStr(pageRatings[k].city) \o ", " \o ToStr(pageRatings[k].state)
                    = selectedLocation

\* "Austin, TX" is selected and a hospital of "austin, TX" is left out
C19_Witness ==
    /\ selectedLocation = "Austin, TX"
    /\ Len(filteredRatings) > 0
    /\ \E k \in 1..Len(pageRatings) :
          /\ pageRatings[k].city = Str("austin")
          /\ ~Shown(pageRatings[k])

\* C20: a change of the selected location or of the sort option leaves
\* `ratings` and the dropdown's options as they were, and `ratings` only
\* ever becomes the list the server sent, in the order sent
C20_RatingsUntouched ==
    [][/\ (selectedLocation' # selectedLocation \/ sortBy' # sortBy) =>
              /\ pageRatings' = pageRatings
              /\ locations' = locations
       /\ pageRatings' # pageRatings => pageRatings' = response.data]_vars

\* a sort over all locations shows the rows in another order than `ratings`
C20_Witness ==
    /\ sortBy \in {"overall", "black", "disparity"}
    /\ selectedLocation = "all"
    /\ Len(filteredRatings) = Len(pageRatings)
    /\ filteredRatings # pageRatings

-----------------------------------------------------------------------------
(* Further properties of the ratings page (SpecPage) *)

\* C21: under the 'overall' or the 'black' sort, running the filter-and-sort
\* step on the rows it has produced gives the same rows in the same order
C21_GradeSortIdempotent ==
    sortBy \in {"overall", "black"} =>
        FilterAndSort(filteredRatings, "all", sortBy).filteredRatings
            = filteredRatings

\* the 'overall' sort has reordered three rows, two of them of one grade
C21_Witness ==
    /\ sortBy = "overall"
    /\ Len(filteredRatings) = 3
    /\ filteredRatings # pageRatings
    /\ \E i \in 1..2 :
          filteredRatings[i].overallGrade = filteredRatings[i + 1].overallGrade

\* C30: a row carries the disparity badge only when its Black and its White
\* grade are both among A, B, C and D
C30_OnlyLetterGrades ==
    \A i \in 1..Len(filteredRatings) :
        disparityBadges[i] =>
            /\ ~NoGrade(GroupGrade(filteredRatings[i], "Black"))
            /\ ~NoGrade(GroupGrade(filteredRatings[i], "White"))
            /\ GroupGrade(filteredRatings[i], "Black").s \in LetterGrades
            /\ GroupGrade(filteredRatings[i], "White").s \in LetterGrades

-----------------------------------------------------------------------------
(* Further properties of GET /ratings (SpecJoin) *)

\* the positions in `ratings` of the documents of hospital id, as a sequence
\* in input order
RECURSIVE PositionsFrom(_, _)
PositionsFrom(id, j) ==
    IF j > Len(ratings) THEN <<>>
    ELSE (IF ratings[j].hospitalId = id THEN <<j>> ELSE <<>>)
         \o PositionsFrom(id, j + 1)

\* the joined record of hospital i when, of the rating documents of that
\* hospital, only the one at position j is stored
JoinedWithOnly(i, j) ==
    hospitalsWithRatings(<<hospitals[i]>>, <<ratings[j]>>)[1]

\* C23: the joined record of a hospital with several rating documents is
\* the record it would have with the first of them alone
C23_FirstDuplicateWins ==
    RatingsSent =>
        \A i \in 1..Len(hospitals) :
            LET at == PositionsFrom(hospitals[i]._id, 1)
            IN  Len(at) > 1 => response.data[i] = JoinedWithOnly(i, at[1])

\* C23, amended: the joined record of a hospital with several rating
\* documents is the record it would have with the last of them alone
C23_LastDuplicateWins ==
    RatingsSent =>
        \A i \in 1..Len(hospitals) :
            LET at == PositionsFrom(hospitals[i]._id, 1)
            IN  Len(at) > 1 => response.data[i] = JoinedWithOnly(i, at[Len(at)])

\* a hospital has two rating documents of different grades and is sent with
\* the grade of the second
C23_Witness ==
    /\ RatingsSent
    /\ Len(hospitals) > 0
    /\ Len(ratings) = 2
    /\ ratings[1].hospitalId = hospitals[1]._id
    /\ ratings[2].hospitalId = hospitals[1]._id
    /\ ratings[1].overallGrade # ratings[2].overallGrade
    /\ response.data[1].overallGrade = ratings[2].overallGrade

-----------------------------------------------------------------------------
(* Further properties of the review store (Spec) *)

\* a required field that is not there: undefined, null, "" or 0
Absent(v) ==
    \/ v.t \in {"undefined", "null"}
    \/ v.t = "string" /\ Len(v.s) = 0
    \/ v.t = "number" /\ v.n = 0

\* the error of the first check, in the order required fields, rating,
\* comment, race, experience type, that body b fails; "" when it fails none
FirstFieldError(b) ==
    IF \/ Absent(b.hospitalId) \/ Absent(b.rating) \/ Absent(b.comment)
       \/ Absent(b.race) \/ Absent(b.experienceType)
    THEN "Missing required fields"
    ELSE IF ~(b.rating.t = "number" /\ b.rating.n >= 10 /\ b.rating.n <= 50)
    THEN "Invalid rating"
    ELSE IF ~HasText(b.comment) THEN "Invalid comment"
    ELSE IF ~RaceAllowed(b) THEN "Invalid race/ethnicity"
    ELSE IF ~TypeAllowed(b) THEN "Invalid experience type"
    ELSE ""

\* C27: a submission failing a field check is answered 400 with the error of
\* the first check it fails, whether or not its hospital exists; one passing
\* every field check is answered 404 when its hospital does not exist and
\* 201 when it does
C27_FirstFailingCheck ==
    ReportAnswered =>
        /\ FirstFieldError(request) # "" =>
              /\ response.status = 400
              /\ response.error = FirstFieldError(request)
        /\ (FirstFieldError(request) = "" /\ ~NamesHospital(request)) =>
              /\ response.status = 404
              /\ response.error = "Hospital not found"
        /\ (FirstFieldError(request) = "" /\ NamesHospital(request)) =>
              response.status = 201

\* a submission with a race outside the list and a hospital outside the
\* directory is answered 400 for the race
C27_Witness ==
    /\ ReportAnswered
    /\ request.race = Str("Martian")
    /\ request.hospitalId = Str("HOSP_404")
    /\ response.status = 400
    /\ response.error = "Invalid race/ethnicity"

\* C29: the five buckets of the distribution add up to totalReviews
C29_BucketsSumToTotal ==
    SentimentSent =>
        response.data.ratingDistribution[1] + response.data.ratingDistribution[2]
            + response.data.ratingDistribution[3] + response.data.ratingDistribution[4]
            + response.data.ratingDistribution[5]
        = response.data.totalReviews

-----------------------------------------------------------------------------
(* Properties of apiFetch (SpecFetch, SpecFetchFair) *)

\* an error whose name is neither 'AbortError' nor 'TypeError' and whose
\* message contains neither 'fetch' nor 'network'
NonRetryable(outcome) ==
    /\ outcome.kind = "error"
    /\ outcome.name \notin {"AbortError", "TypeError"}
    /\ ~MessageIncludes(outcome, <<"f", "e", "t", "c", "h">>)
    /\ ~MessageIncludes(outcome, <<"n", "e", "t", "w", "o", "r", "k">>)

\* C24: a fetch call that fails with a non-retryable error is the last fetch
\* call made, and apiFetch has thrown that error
C24_NonRetryableThrownAtOnce ==
    \A i \in 1..Len(fetchCalls) :
        NonRetryable(fetchCalls[i]) =>
            /\ i = Len(fetchCalls)
            /\ settled = Thrown(fetchCalls[i])

\* what holds of a call with a budget of zero or more retries at any moment
WithinBudget ==
    /\ Len(fetchCalls) <= retries + 1
    /\ Len(fetchCalls) = retries + 1 => settled # Pending
    /\ settled.kind = "returned" =>
          /\ Len(fetchCalls) > 0
          /\ settled.response = fetchCalls[Len(fetchCalls)]
    /\ settled.kind = "thrown" =>
          /\ Len(fetchCalls) > 0
          /\ settled.error = fetchCalls[Len(fetchCalls)]

\* C25: with retries >= 0 apiFetch makes at most retries + 1 fetch calls, has
\* settled once it has made that many, settles in the end, and settles by
\* returning the response of its last fetch call or throwing that call's error
C25_TerminatesWithinBudget ==
    /\ [](retries >= 0 => WithinBudget)
    /\ (retries >= 0 => <>(settled # Pending))

\* three fetch calls under retries = 2: a 503, an error that is not
\* retryable, and an error that is thrown
C25_Witness ==
    /\ retries = 2
    /\ Len(fetchCalls) = 3
    /\ fetchCalls[1].kind = "response"
    /\ fetchCalls[1].status = 503
    /\ NonRetryable(fetchCalls[2])
    /\ settled = Thrown(fetchCalls[3])

\* C26: fetch call i is attempt i - 1.  A 502, 503 or 504 received on an
\* attempt below retries is followed by another attempt; any other response,
\* and any response received on attempt retries, is the last fetch call and
\* is what apiFetch returns
C26_StatusHandling ==
    \A i \in 1..Len(fetchCalls) :
        fetchCalls[i].kind = "response" =>
            IF fetchCalls[i].status \in {502, 503, 504} /\ i - 1 < retries
            THEN \/ i < Len(fetchCalls)
                 \/ settled = Pending /\ attempt = i
            ELSE /\ i = Len(fetchCalls)
                 /\ settled = Returned(fetchCalls[i])

\* under retries = 2 a 503 and a 502 are retried, and the 504 of the third
\* attempt is returned
C26_Witness ==
    /\ retries = 2
    /\ Len(fetchCalls) = 3
    /\ fetchCalls[1].kind = "response" /\ fetchCalls[1].status = 503
    /\ fetchCalls[2].kind = "response" /\ fetchCalls[2].status = 502
    /\ fetchCalls[3].kind = "response" /\ fetchCalls[3].status = 504
    /\ settled = Returned(fetchCalls[3])

-----------------------------------------------------------------------------
(* Properties of POST /articles (SpecArticles) *)

\* request i is answered by this step
AnsweredNow(i) ==
    /\ i \in 1..Len(articleRequests')
    /\ articleRequests'[i].pc = "answered"
    /\ i \in 1..Len(articleRequests) => articleRequests[i].pc # "answered"

\* the body has every required field and its url, without the blanks around
\* it, is the url of a stored article
UrlAlreadyStored(body) ==
    /\ body.title.t = "string"
    /\ body.url.t = "string"
    /\ \E k \in 1..Len(articles) : articles[k].url = Trim(body.url.s)

\* C22: no two stored articles have the same url, and a request answered
\* while its url is stored is answered 409 and stores nothing
C22_UrlsUnique ==
    /\ [](\A j, k \in 1..Len(articles) : articles[j].url = articles[k].url => j = k)
    /\ [][\A i \in 1..MaxRequests :
             (AnsweredNow(i) /\ UrlAlreadyStored(articleRequests'[i].body)) =>
                 /\ articleRequests'[i].status = 409
                 /\ articles' = articles]_vars

-----------------------------------------------------------------------------
(* Properties of the chart section (SpecChart) *)

\* C28: with a hospital selected, the 'individual' tab open and no sentiment
\* request in flight, the sentiment held, when there is one, is the
\* sentiment of the selected hospital
C28_SentimentOfSelected ==
    (/\ selectedHospitalForChart # ""
     /\ chartTab = "individual"
     /\ sentimentRequests = <<>>
     /\ selectedHospitalSentiment # Null) =>
        selectedHospitalSentiment =
            SentimentData(ReviewsOf(reviews, selectedHospitalForChart))

====
